---- MODULE Spec2Model ----
(***************************************************************************)
(* Model of .github/workflows/send-mqtt.js: a publisher that connects to   *)
(* an MQTT broker over WSS, publishes one message and retries with an      *)
(* exponential backoff.                                                    *)
(*                                                                         *)
(* The program is single threaded: every action below is one run-to-       *)
(* completion job of the Node.js event loop (the script's synchronous      *)
(* start, a timer callback, an event handler, a promise continuation).     *)
(* The mqtt library and the broker are the environment: they decide which  *)
(* events are delivered and when; time is abstracted, so an armed timer    *)
(* may fire at any moment before it is cleared.                            *)
(***************************************************************************)
EXTENDS Integers, Sequences, FiniteSets

\* ---------------------------------------------------------------- bounds
\* Largest value written in MQTT_ATTEMPTS (the values are -1..MaxN).
MaxN == 3
\* Number of 'error' events the library delivers in one run.
MaxErrEvents == 2
\* Number of HTTP 'response' events the WebSocket streams deliver in one run.
MaxResponses == 1

\* ------------------------------------------------------ program constants
DefaultAttempts == 4
DefaultDelayMs == 3000
DefaultConnectTimeout == 15000
GraceMs == 5000

\* ------------------------------------------------------- the environment
\* An environment variable is undefined or holds a text (a sequence of
\* characters, <<>> the empty string).
Undefined == [defined |-> FALSE, text |-> <<>>]
Str(t) == [defined |-> TRUE, text |-> t]

DigitChars == <<"0", "1", "2", "3", "4", "5", "6", "7", "8", "9">>

\* The decimal text of an integer, as a workflow writes it in the variable.
RECURSIVE Decimal(_)
Decimal(n) ==
    IF n < 0 THEN <<"-">> \o Decimal(-n)
    ELSE IF n < 10 THEN <<DigitChars[n + 1]>>
    ELSE Decimal(n \div 10) \o <<DigitChars[(n % 10) + 1]>>

\* JavaScript truthiness of process.env.X: undefined and "" are falsy.
Truthy(v) == v.defined /\ v.text # <<>>

DigitVal(ch) == CHOOSE d \in 0..9 : DigitChars[d + 1] = ch

RECURSIVE ParseDigits(_, _)
ParseDigits(t, acc) ==
    IF t = <<>> THEN acc
    ELSE ParseDigits(Tail(t), 10 * acc + DigitVal(Head(t)))

\* Number(text) for the decimal integer texts the model writes.
Number(t) ==
    IF t # <<>> /\ Head(t) = "-" THEN 0 - ParseDigits(Tail(t), 0)
    ELSE ParseDigits(t, 0)

\* Number(process.env.X || dflt)
NumberOr(v, dflt) == IF Truthy(v) THEN Number(v.text) ELSE dflt

AttemptsValues == {Undefined} \cup {Str(Decimal(n)) : n \in -1..MaxN}
DelayValues == {Undefined, Str(Decimal(100))}
TextValues == {Undefined, Str(<<>>), Str(<<"x">>)}

AllEnvironments ==
    [MQTT_HOST : TextValues,
     MQTT_ATTEMPTS : AttemptsValues,
     MQTT_RETRY_DELAY_MS : DelayValues,
     MQTT_CONNECT_TIMEOUT_MS : {Undefined},
     CF_ACCESS_CLIENT_ID : TextValues,
     CF_ACCESS_CLIENT_SECRET : TextValues]

\* The environments of the runs: every MQTT_HOST, MQTT_ATTEMPTS and
\* MQTT_RETRY_DELAY_MS with the access variables unset, and every
\* combination of the access variables in the runs of two attempts.
Environments ==
    {e \in AllEnvironments :
        \/ e.CF_ACCESS_CLIENT_ID = Undefined /\ e.CF_ACCESS_CLIENT_SECRET = Undefined
        \/ e.MQTT_ATTEMPTS = Str(Decimal(2))}

VARIABLES
    env,        \* process.env, fixed for the run
    pc,         \* position of the main flow
    attempt,    \* the loop variable of the retry loop
    exitCode,   \* {} while the process runs, {code} once it has exited
    clients,    \* one record per publishOnce call, in call order
    sleeps,     \* the delays passed to sleep(), in call order
    nErr,       \* 'error' events delivered so far
    nResp       \* 'response' events delivered so far (warnings logged)

vars == <<env, pc, attempt, exitCode, clients, sleeps, nErr, nResp>>

\* ------------------------------------------------------------ configuration
TARGET == env.MQTT_HOST
maxAttempts == NumberOr(env.MQTT_ATTEMPTS, DefaultAttempts)
baseDelayMs == NumberOr(env.MQTT_RETRY_DELAY_MS, DefaultDelayMs)
connectTimeout == NumberOr(env.MQTT_CONNECT_TIMEOUT_MS, DefaultConnectTimeout)

RECURSIVE Pow2(_)
Pow2(n) == IF n <= 0 THEN 1 ELSE 2 * Pow2(n - 1)

\* ---------------------------------------------------------- one attempt
BaseHeaders == {"sec-websocket-protocol", "User-Agent"}
AccessHeaders == {"CF-Access-Client-Id", "CF-Access-Client-Secret"}

wsHeadersEither(e) ==
    IF Truthy(e.CF_ACCESS_CLIENT_ID) \/ Truthy(e.CF_ACCESS_CLIENT_SECRET)
    THEN BaseHeaders \cup AccessHeaders
    ELSE BaseHeaders

\* The headers publishOnce hands to mqtt.connect.
wsHeaders(e) ==
    IF Truthy(e.CF_ACCESS_CLIENT_ID) /\ Truthy(e.CF_ACCESS_CLIENT_SECRET)
    THEN BaseHeaders \cup AccessHeaders
    ELSE BaseHeaders

\* The state of one publishOnce call right after the promise executor ran:
\* mqtt.connect was called, the timer is armed, the handlers are installed.
NewClient(e) ==
    [headers |-> wsHeaders(e),
     timerMs |-> NumberOr(e.MQTT_CONNECT_TIMEOUT_MS, DefaultConnectTimeout) + GraceMs,
     timer |-> "armed",        \* armed | fired | cleared
     timedOut |-> FALSE,
     promise |-> "pending",    \* pending | fulfilled | rejected
     reason |-> "none",        \* none | timeout | transport | publish
     connEv |-> 0,             \* 'connect' events delivered
     connRuns |-> 0,           \* connect handler bodies run past the guard
     errRuns |-> 0,            \* error handler bodies run past the guard
     ignored |-> 0,            \* handler runs that returned at the guard
     pubs |-> 0,               \* client.publish calls
     pubPending |-> 0,         \* publish callbacks not yet called
     acked |-> 0,              \* publish callbacks called without error
     ends |-> 0,               \* client.end calls
     closePending |-> 0,       \* client.end callbacks not yet called
     settles |-> 0,            \* resolve/reject calls
     logs |-> 0]               \* console lines written by the handlers

\* reject(err): only the first resolve/reject of a promise settles it.
Reject(c, why) ==
    [c EXCEPT !.settles = @ + 1,
              !.promise = IF @ = "pending" THEN "rejected" ELSE @,
              !.reason = IF c.promise = "pending" THEN why ELSE @]

\* resolve({ok: true})
Resolve(c) ==
    [c EXCEPT !.settles = @ + 1,
              !.promise = IF @ = "pending" THEN "fulfilled" ELSE @]

\* clearTimeout(timer): no effect on a timer that fired or was cleared.
ClearTimeout(c) == [c EXCEPT !.timer = IF @ = "armed" THEN "cleared" ELSE @]

TimeoutHandlerNoEnd(c) ==
    Reject([c EXCEPT !.timer = "fired",
                     !.timedOut = TRUE,
                     !.logs = @ + 1], "timeout")

TimeoutHandlerNoReject(c) ==
    [c EXCEPT !.timer = "fired",
              !.timedOut = TRUE,
              !.logs = @ + 1,
              !.ends = @ + 1]

\* The setTimeout callback of publishOnce.
TimeoutHandler(c) ==
    Reject([c EXCEPT !.timer = "fired",
                     !.timedOut = TRUE,
                     !.logs = @ + 1,
                     !.ends = @ + 1], "timeout")

ConnectHandlerNoGuard(c) ==
    [ClearTimeout(c) EXCEPT !.connRuns = @ + 1,
                            !.logs = @ + 1,
                            !.pubs = @ + 1,
                            !.pubPending = @ + 1]

ConnectHandlerNoClear(c) ==
    IF c.timedOut THEN [c EXCEPT !.ignored = @ + 1]
    ELSE [c EXCEPT !.connRuns = @ + 1,
                   !.logs = @ + 1,
                   !.pubs = @ + 1,
                   !.pubPending = @ + 1]

\* client.on('connect', ...)
ConnectHandler(c) ==
    IF c.timedOut THEN [c EXCEPT !.ignored = @ + 1]
    ELSE [ClearTimeout(c) EXCEPT !.connRuns = @ + 1,
                                 !.logs = @ + 1,
                                 !.pubs = @ + 1,
                                 !.pubPending = @ + 1]

PublishCallbackNoEnd(c, err) ==
    IF err
    THEN Reject([c EXCEPT !.pubPending = @ - 1,
                          !.logs = @ + 1], "publish")
    ELSE [c EXCEPT !.pubPending = @ - 1,
                   !.logs = @ + 1,
                   !.acked = @ + 1,
                   !.ends = @ + 1,
                   !.closePending = @ + 1]

PublishCallbackResolveEarly(c, err) ==
    IF err
    THEN Reject([c EXCEPT !.pubPending = @ - 1,
                          !.logs = @ + 1,
                          !.ends = @ + 1], "publish")
    ELSE Resolve([c EXCEPT !.pubPending = @ - 1,
                           !.logs = @ + 1,
                           !.acked = @ + 1,
                           !.ends = @ + 1,
                           !.closePending = @ + 1])

\* The callback of client.publish; err is TRUE for a failed publish.
PublishCallback(c, err) ==
    IF err
    THEN Reject([c EXCEPT !.pubPending = @ - 1,
                          !.logs = @ + 1,
                          !.ends = @ + 1], "publish")
    ELSE [c EXCEPT !.pubPending = @ - 1,
                   !.logs = @ + 1,
                   !.acked = @ + 1,
                   !.ends = @ + 1,
                   !.closePending = @ + 1]

\* The callback of client.end(true, ...) on the success path.
EndCallback(c) == Resolve([c EXCEPT !.closePending = @ - 1])

ErrorHandlerNoGuard(c) ==
    Reject([ClearTimeout(c) EXCEPT !.errRuns = @ + 1,
                                   !.logs = @ + 1,
                                   !.ends = @ + 1], "transport")

ErrorHandlerPreConnectOnly(c) ==
    IF c.timedOut \/ c.connRuns > 0 THEN [c EXCEPT !.ignored = @ + 1]
    ELSE Reject([ClearTimeout(c) EXCEPT !.errRuns = @ + 1,
                                        !.logs = @ + 1,
                                        !.ends = @ + 1], "transport")

\* client.on('error', ...)
ErrorHandler(c) ==
    IF c.timedOut THEN [c EXCEPT !.ignored = @ + 1]
    ELSE Reject([ClearTimeout(c) EXCEPT !.errRuns = @ + 1,
                                        !.logs = @ + 1,
                                        !.ends = @ + 1], "transport")

ResponseHandlerFails(c) == Reject(ClearTimeout(c), "transport")

\* client.stream.on('response', ...): two console.warn lines, nothing else.
ResponseHandler(c) == c

\* ------------------------------------------------------------ main flow
Running == exitCode = {}

\* A settled promise the main flow awaits: its continuation is a microtask
\* and runs before any other timer or event callback.
MicrotaskPending ==
    /\ pc = "await"
    /\ clients[attempt].promise # "pending"

\* An event-loop job other than the await continuation may run.
CanDispatch == Running /\ pc # "init" /\ ~MicrotaskPending

backoffFromAttempt(a) == baseDelayMs * Pow2(a)

\* const backoff = baseDelayMs * Math.pow(2, attempt - 1)
backoff(a) == baseDelayMs * Pow2(a - 1)

\* The loop test and, when it passes, the body up to await publishOnce().
LoopIter(a) ==
    /\ attempt' = a
    /\ IF a <= maxAttempts
       THEN /\ clients' = Append(clients, NewClient(env))
            /\ pc' = "await"
       ELSE /\ clients' = clients
            /\ pc' = "returned"

StartUndefinedOnly ==
    /\ pc = "init"
    /\ IF ~TARGET.defined
       THEN /\ pc' = "exited"
            /\ exitCode' = {2}
            /\ UNCHANGED <<attempt, clients>>
       ELSE /\ LoopIter(1)
            /\ UNCHANGED exitCode
    /\ UNCHANGED <<env, sleeps, nErr, nResp>>

\* The synchronous run of the script: the configuration check, then the
\* async function up to its first await.
Start ==
    /\ pc = "init"
    /\ IF ~Truthy(TARGET)
       THEN /\ pc' = "exited"
            /\ exitCode' = {2}
            /\ UNCHANGED <<attempt, clients>>
       ELSE /\ LoopIter(1)
            /\ UNCHANGED exitCode
    /\ UNCHANGED <<env, sleeps, nErr, nResp>>

ResumeNoExit ==
    /\ Running
    /\ MicrotaskPending
    /\ IF attempt < maxAttempts
       THEN /\ sleeps' = Append(sleeps, backoff(attempt))
            /\ pc' = "sleep"
            /\ UNCHANGED exitCode
       ELSE /\ pc' = "exited"
            /\ exitCode' = {IF clients[attempt].promise = "fulfilled" THEN 0 ELSE 1}
            /\ UNCHANGED sleeps
    /\ UNCHANGED <<env, attempt, clients, nErr, nResp>>

ResumeKindSensitive ==
    /\ Running
    /\ MicrotaskPending
    /\ IF clients[attempt].promise = "fulfilled"
       THEN /\ pc' = "exited"
            /\ exitCode' = {0}
            /\ UNCHANGED sleeps
       ELSE IF attempt < maxAttempts /\ clients[attempt].reason # "publish"
            THEN /\ sleeps' = Append(sleeps, backoff(attempt))
                 /\ pc' = "sleep"
                 /\ UNCHANGED exitCode
            ELSE /\ pc' = "exited"
                 /\ exitCode' = {1}
                 /\ UNCHANGED sleeps
    /\ UNCHANGED <<env, attempt, clients, nErr, nResp>>

ResumeSleepAlways ==
    /\ Running
    /\ MicrotaskPending
    /\ IF clients[attempt].promise = "fulfilled"
       THEN /\ pc' = "exited"
            /\ exitCode' = {0}
            /\ UNCHANGED sleeps
       ELSE /\ sleeps' = Append(sleeps, backoff(attempt))
            /\ IF attempt < maxAttempts
               THEN pc' = "sleep" /\ UNCHANGED exitCode
               ELSE pc' = "exited" /\ exitCode' = {1}
    /\ UNCHANGED <<env, attempt, clients, nErr, nResp>>

\* The continuation of await publishOnce(): the rest of the try block or
\* the catch block, up to the next await or process.exit.
Resume ==
    /\ Running
    /\ MicrotaskPending
    /\ IF clients[attempt].promise = "fulfilled"
       THEN /\ pc' = "exited"
            /\ exitCode' = {0}
            /\ UNCHANGED sleeps
       ELSE IF attempt < maxAttempts
            THEN /\ sleeps' = Append(sleeps, backoff(attempt))
                 /\ pc' = "sleep"
                 /\ UNCHANGED exitCode
            ELSE /\ pc' = "exited"
                 /\ exitCode' = {1}
                 /\ UNCHANGED sleeps
    /\ UNCHANGED <<env, attempt, clients, nErr, nResp>>

\* The sleep timer fires: attempt++, the loop test, the next publishOnce().
Wake ==
    /\ Running
    /\ pc = "sleep"
    /\ LoopIter(attempt + 1)
    /\ UNCHANGED <<env, exitCode, sleeps, nErr, nResp>>

\* The async function returned without process.exit and nothing is left to
\* run: Node.js ends the process with its default exit code.
NaturalExit ==
    /\ Running
    /\ pc = "returned"
    /\ \A i \in 1..Len(clients) : clients[i].ends > 0
    /\ pc' = "exited"
    /\ exitCode' = {0}
    /\ UNCHANGED <<env, attempt, clients, sleeps, nErr, nResp>>

\* ------------------------------------------------- timers and events
TimerFire(i) ==
    /\ CanDispatch
    /\ clients[i].timer = "armed"
    /\ clients' = [clients EXCEPT ![i] = TimeoutHandler(@)]
    /\ UNCHANGED <<env, pc, attempt, exitCode, sleeps, nErr, nResp>>

\* reconnectPeriod is 0: a client connects at most once.
ConnectEvent(i) ==
    /\ CanDispatch
    /\ clients[i].connEv = 0
    /\ clients' = [clients EXCEPT ![i] = ConnectHandler([@ EXCEPT !.connEv = 1])]
    /\ UNCHANGED <<env, pc, attempt, exitCode, sleeps, nErr, nResp>>

ErrorEvent(i) ==
    /\ CanDispatch
    /\ nErr < MaxErrEvents
    /\ nErr' = nErr + 1
    /\ clients' = [clients EXCEPT ![i] = ErrorHandler(@)]
    /\ UNCHANGED <<env, pc, attempt, exitCode, sleeps, nResp>>

\* The broker acknowledges a publish only on a connection that was not
\* told to close; a publish can fail at any time.
PublishDone(i, err) ==
    /\ CanDispatch
    /\ clients[i].pubPending > 0
    /\ err \/ clients[i].ends = 0
    /\ clients' = [clients EXCEPT ![i] = PublishCallback(@, err)]
    /\ UNCHANGED <<env, pc, attempt, exitCode, sleeps, nErr, nResp>>

EndDone(i) ==
    /\ CanDispatch
    /\ clients[i].closePending > 0
    /\ clients' = [clients EXCEPT ![i] = EndCallback(@)]
    /\ UNCHANGED <<env, pc, attempt, exitCode, sleeps, nErr, nResp>>

\* The HTTP response to the WebSocket upgrade request arrives on a stream
\* that was not told to close; the handler writes its warning lines.
ResponseEvent(i) ==
    /\ CanDispatch
    /\ nResp < MaxResponses
    /\ clients[i].ends = 0
    /\ nResp' = nResp + 1
    /\ clients' = [clients EXCEPT ![i] = ResponseHandler(@)]
    /\ UNCHANGED <<env, pc, attempt, exitCode, sleeps, nErr>>

\* ------------------------------------------------------ specification
Init ==
    /\ env \in Environments
    /\ pc = "init"
    /\ attempt = 0
    /\ exitCode = {}
    /\ clients = <<>>
    /\ sleeps = <<>>
    /\ nErr = 0
    /\ nResp = 0

Next ==
    \/ Start
    \/ Resume
    \/ Wake
    \/ NaturalExit
    \/ \E i \in 1..Len(clients) : TimerFire(i)
    \/ \E i \in 1..Len(clients) : ConnectEvent(i)
    \/ \E i \in 1..Len(clients) : ErrorEvent(i)
    \/ \E i \in 1..Len(clients), err \in BOOLEAN : PublishDone(i, err)
    \/ \E i \in 1..Len(clients) : EndDone(i)
    \/ \E i \in 1..Len(clients) : ResponseEvent(i)

Spec == Init /\ [][Next]_vars

\* Some armed connect timer fires.
TimerFireAny == \E i \in 1..Len(clients) : TimerFire(i)

\* What the runtime guarantees: the script runs, await continuations run,
\* armed timers fire, and the process ends once the async function returned.
\* Nothing obliges the library to emit an event or call a callback.
Fairness ==
    /\ WF_vars(Start)
    /\ WF_vars(Resume)
    /\ WF_vars(Wake)
    /\ WF_vars(NaturalExit)
    /\ WF_vars(TimerFireAny)

\* The runs with the optional settings left unset.
LiveInit ==
    /\ Init
    /\ env.MQTT_RETRY_DELAY_MS = Undefined
    /\ env.CF_ACCESS_CLIENT_ID = Undefined
    /\ env.CF_ACCESS_CLIENT_SECRET = Undefined

FairSpec == LiveInit /\ [][Next]_vars /\ Fairness

\* ------------------------------------------------------------ claims
Started == 1..Len(clients)
HostSet == Truthy(TARGET)
Exited == exitCode # {}

\* C1 (as stated): for every integer maxAttempts = N, 0 and negative values
\* included, a run in which every attempt fails starts exactly N attempts
\* and exits with code 1.
C1_AllFailExactlyNThenExit1 ==
    (Exited /\ HostSet /\ \A i \in Started : clients[i].promise = "rejected")
        => (Len(clients) = maxAttempts /\ exitCode = {1})

\* C2: once attempt m is resolved successfully, the very next step of the
\* program is process.exit(0): no attempt after m exists, no sleep follows
\* it, and nothing else runs in between.
C2_SuccessExitsAtOnce ==
    [][\A m \in 1..Len(clients') :
          clients'[m].promise = "fulfilled" =>
              /\ m = Len(clients')
              /\ Len(sleeps') = m - 1
              /\ \/ exitCode' = {0}
                 \/ /\ clients[m].promise = "pending"
                    /\ exitCode' = {}
                    /\ pc' = "await"
                    /\ attempt' = m]_vars

C2_Witness ==
    /\ exitCode = {0}
    /\ Len(clients) = 2
    /\ maxAttempts > 2
    /\ clients[2].promise = "fulfilled"

\* C3 (as stated): exit code 0 only if some attempt published and resolved
\* successfully, 1 only if all maxAttempts attempts were made and failed,
\* 2 only if MQTT_HOST is missing, for every maxAttempts.
C3_ExitCodeMeaning ==
    /\ exitCode = {0} =>
          \E i \in Started : clients[i].acked > 0 /\ clients[i].promise = "fulfilled"
    /\ exitCode = {1} =>
          /\ Len(clients) = maxAttempts
          /\ \A i \in Started : clients[i].promise = "rejected"
    /\ exitCode = {2} => ~HostSet

\* C4: the first backoff delay is baseDelayMs, every later one doubles the
\* one before it, and the delay before attempt k is the (k-1)-th sleep.
C4_BackoffDoubles ==
    /\ \A k \in 2..Len(clients) :
          /\ Len(sleeps) >= k - 1
          /\ sleeps[k - 1] = baseDelayMs * Pow2(k - 2)
    /\ Len(sleeps) >= 1 => sleeps[1] = baseDelayMs
    /\ \A j \in 1..(Len(sleeps) - 1) : sleeps[j + 1] = 2 * sleeps[j]

C4_Witness ==
    /\ Len(clients) = 4
    /\ sleeps = <<100, 200, 400>>

\* C5: when MQTT_HOST is undefined or empty the process exits with code 2
\* and no attempt, connection, retry or backoff ever happens.
C5_MissingHostExits2 ==
    (~HostSet /\ pc # "init") =>
        /\ exitCode = {2}
        /\ pc = "exited"
        /\ clients = <<>>
        /\ sleeps = <<>>
        /\ attempt = 0

C5_Witness ==
    /\ exitCode = {2}
    /\ TARGET = Str(<<>>)

\* C6: an attempt whose timer fired was failed by the timeout path exactly
\* once: rejected with the timeout error, closed once, and no connect or
\* error event delivered afterwards publishes, closes or settles again.
C6_TimeoutSettlesOnce ==
    \A i \in Started :
        clients[i].timer = "fired" =>
            /\ clients[i].timerMs = connectTimeout + GraceMs
            /\ clients[i].timedOut
            /\ clients[i].promise = "rejected"
            /\ clients[i].reason = "timeout"
            /\ clients[i].settles = 1
            /\ clients[i].ends = 1
            /\ clients[i].logs = 1
            /\ clients[i].pubs = 0

C6_Witness ==
    \E i \in Started :
        /\ clients[i].timer = "fired"
        /\ clients[i].connEv = 1
        /\ clients[i].ignored >= 2

\* C7: attempts never overlap: at most one attempt is pending, at most one
\* connection has not been told to close, and every attempt before the
\* latest one has settled and had client.end called.
C7_AttemptsSequential ==
    /\ Cardinality({i \in Started : clients[i].promise = "pending"}) <= 1
    /\ Cardinality({i \in Started : clients[i].ends = 0}) <= 1
    /\ \A k \in 1..(Len(clients) - 1) :
          /\ clients[k].promise = "rejected"
          /\ clients[k].ends >= 1

C7_Witness ==
    /\ Len(clients) = 3
    /\ clients[3].promise = "pending"
    /\ clients[3].ends = 0
    /\ clients[1].reason = "timeout"
    /\ clients[2].reason = "transport"

\* C8: the two access headers are sent exactly when both
\* CF_ACCESS_CLIENT_ID and CF_ACCESS_CLIENT_SECRET are non-empty, and
\* never one without the other.
C8_AccessHeadersIffBoth ==
    \A i \in Started :
        /\ (AccessHeaders \subseteq clients[i].headers) <=>
              (Truthy(env.CF_ACCESS_CLIENT_ID) /\ Truthy(env.CF_ACCESS_CLIENT_SECRET))
        /\ \/ AccessHeaders \subseteq clients[i].headers
           \/ AccessHeaders \cap clients[i].headers = {}
        /\ BaseHeaders \subseteq clients[i].headers

C8_Witness ==
    /\ Len(clients) >= 1
    /\ Truthy(env.CF_ACCESS_CLIENT_ID)
    /\ env.CF_ACCESS_CLIENT_SECRET = Str(<<>>)
    /\ clients[1].headers = BaseHeaders

\* C9 (as stated): once an attempt is settled, by whichever path, no later
\* event of that attempt publishes, calls client.end, or resolves/rejects.
C9_SettledIgnoresAll ==
    [][\A i \in Started :
          clients[i].promise # "pending" =>
              /\ clients'[i].pubs = clients[i].pubs
              /\ clients'[i].ends = clients[i].ends
              /\ clients'[i].settles = clients[i].settles]_vars

\* C9 (amended): once an attempt is settled its result never changes, and
\* once it was settled by the timeout every later connect or error event
\* is ignored entirely (no log, no publish, no client.end, no settle call).
C9_SettledResultStable ==
    [][\A i \in Started :
          clients[i].promise # "pending" =>
              /\ clients'[i].promise = clients[i].promise
              /\ clients'[i].reason = clients[i].reason
              /\ clients[i].timedOut =>
                    clients'[i] = [clients[i] EXCEPT
                                      !.ignored = clients'[i].ignored,
                                      !.connEv = clients'[i].connEv]]_vars

C9_Witness ==
    \E i \in Started :
        /\ clients[i].promise = "rejected"
        /\ clients[i].reason = "transport"
        /\ clients[i].settles >= 2
        /\ clients[i].ends >= 2

\* C10: the error path and the timeout path exclude each other: a timer
\* that fired means no error or connect handler body ever ran, and a
\* handled error or connect event means the timer was cleared and never
\* fires.
C10_ErrorTimeoutExclusive ==
    \A i \in Started :
        /\ clients[i].timer = "fired" =>
              /\ clients[i].errRuns = 0
              /\ clients[i].connRuns = 0
        /\ (clients[i].errRuns > 0 \/ clients[i].connRuns > 0) =>
              /\ clients[i].timer = "cleared"
              /\ ~clients[i].timedOut
              /\ clients[i].reason # "timeout"
        /\ clients[i].timedOut <=> clients[i].timer = "fired"

C10_Witness ==
    \E i, j \in Started :
        /\ clients[i].timer = "fired"
        /\ clients[i].connEv = 0
        /\ clients[i].ignored >= 1
        /\ clients[j].errRuns >= 1
        /\ clients[j].connRuns = 0
\* C11: a settled attempt never leaves its connection open: client.end was
\* called on its client before or in the step that settled it, whichever
\* path (success, publish error, transport error, timeout) settled it.
C11_SettledMeansEndCalled ==
    \A i \in Started :
        /\ clients[i].promise # "pending" => clients[i].ends >= 1
        /\ clients[i].promise = "rejected" =>
              clients[i].reason \in {"timeout", "transport", "publish"}

C11_Witness ==
    /\ Len(clients) = 4
    /\ clients[1].reason = "timeout"
    /\ clients[2].reason = "transport"
    /\ clients[3].reason = "publish"
    /\ clients[4].promise = "fulfilled"
    /\ \A i \in Started : clients[i].ends = 1

\* C12: an attempt is fulfilled only after its connect handler ran, its
\* publish was acknowledged without error and the close started by
\* client.end(true, cb) completed; each stage needs the one before it.
C12_SuccessAfterCloseCompletes ==
    \A i \in Started :
        /\ clients[i].pubs <= clients[i].connRuns
        /\ clients[i].acked + clients[i].pubPending <= clients[i].pubs
        /\ clients[i].closePending <= clients[i].acked
        /\ clients[i].acked > 0 => clients[i].ends >= 1
        /\ clients[i].promise = "fulfilled" =>
              /\ clients[i].connRuns >= 1
              /\ clients[i].acked >= 1
              /\ clients[i].closePending < clients[i].acked

C12_Witness ==
    \E i \in Started :
        /\ clients[i].promise = "fulfilled"
        /\ clients[i].closePending = 0
        /\ exitCode = {0}

\* C13 (as stated): once the publish of an attempt was acknowledged, that
\* attempt does not fail, no later attempt is started, and the payload is
\* acknowledged at most once in a run.
C13_AckedNeverRetried ==
    /\ \A i \in Started :
          clients[i].acked > 0 =>
              /\ clients[i].promise # "rejected"
              /\ i = Len(clients)
    /\ Cardinality({i \in Started : clients[i].acked > 0}) <= 1

\* The awaited attempt is pending with its timer cleared: its connect
\* handler ran and only a library callback or event can settle it.
AwaitingLibrary ==
    /\ Running
    /\ pc = "await"
    /\ clients[attempt].promise = "pending"
    /\ clients[attempt].timer = "cleared"

\* C14 (as stated): assuming timers fire, every attempt settles and every
\* run ends with an exit code.
C14_EventuallyExits == <>Exited

\* C14 (amended): assuming timers fire, a run either ends with an exit code
\* or is waiting on an attempt whose connect handler ran (timer cleared),
\* where only the library can settle it; an attempt whose connect handler
\* never ran always settles.
C14_ExitsOrAwaitsLibrary == []<>(Exited \/ AwaitingLibrary)

C14_Witness ==
    /\ exitCode = {1}
    /\ Len(clients) = maxAttempts
    /\ Len(clients) >= 2
    /\ \A i \in Started : clients[i].reason = "timeout" /\ clients[i].connRuns = 0

\* C15: an error event delivered to an attempt that is still pending and
\* has not timed out rejects it with the transport error, calls client.end
\* and clears the timer, before the connect event as well as after it.
C15_ErrorFailsAttempt ==
    [][\A i \in Started :
          (/\ nErr' = nErr + 1
           /\ clients'[i] # clients[i]
           /\ ~clients[i].timedOut) =>
              /\ clients'[i].ends = clients[i].ends + 1
              /\ clients'[i].settles = clients[i].settles + 1
              /\ clients'[i].timer = "cleared"
              /\ clients'[i].promise = "rejected"
              /\ clients[i].promise = "pending" => clients'[i].reason = "transport"]_vars

C15_Witness ==
    \E i, j \in Started :
        /\ clients[i].connRuns = 0
        /\ clients[i].connEv = 0
        /\ clients[i].reason = "transport"
        /\ clients[j].connRuns = 1
        /\ clients[j].pubPending = 1
        /\ clients[j].acked = 0
        /\ clients[j].reason = "transport"

\* C16: what the retry loop does is a function of the configuration and of
\* which attempts failed, never of the kind of failure: every failed
\* attempt below maxAttempts is followed by the sleep of its ordinal, the
\* failed attempt maxAttempts by exit 1, whatever the reason.  Two runs
\* that fail at the same ordinals therefore agree on attempts, delays and
\* exit code.
C16_FailureKindsUniform ==
    /\ \A k \in 1..Len(sleeps) :
          /\ k <= Len(clients)
          /\ clients[k].promise = "rejected"
          /\ sleeps[k] = baseDelayMs * Pow2(k - 1)
    /\ \A k \in Started :
          (clients[k].promise = "rejected" /\ ~MicrotaskPending /\ k = Len(clients)) =>
              IF k < maxAttempts
              THEN Running /\ pc = "sleep" /\ Len(sleeps) = k
              ELSE exitCode = {1} /\ Len(sleeps) = k - 1
    /\ \A k \in 1..(Len(clients) - 1) : Len(sleeps) >= k

C16_Witness ==
    /\ exitCode = {1}
    /\ Len(clients) = 3
    /\ clients[1].reason = "publish"
    /\ clients[2].reason = "timeout"
    /\ clients[3].reason = "transport"
    /\ sleeps = <<100, 200>>

\* C17: sleeps happen only between attempts: while attempt k is in flight
\* or has ended the run there were k-1 sleeps, while the flow sleeps after
\* attempt k there were k, and a run that exits with code 1 after N
\* attempts slept N-1 times.
C17_SleepsOnlyBetweenAttempts ==
    /\ pc \in {"await", "exited"} /\ Len(clients) >= 1 =>
          Len(sleeps) = Len(clients) - 1
    /\ pc = "sleep" =>
          /\ Len(sleeps) = Len(clients)
          /\ Len(clients) < maxAttempts
    /\ Len(clients) = 0 => sleeps = <<>>
    /\ exitCode = {1} => Len(sleeps) = maxAttempts - 1

C17_Witness ==
    /\ exitCode = {1}
    /\ maxAttempts = 2
    /\ Len(clients) = 2
    /\ sleeps = <<100>>

\* C18: a 'response' event changes nothing but the warnings written: the
\* attempt's promise, timer, timedOut flag and connection, and the main
\* flow, are as before.
C18_ResponseInformational ==
    [][nResp' # nResp =>
          /\ nResp' = nResp + 1
          /\ UNCHANGED <<env, pc, attempt, exitCode, clients, sleeps, nErr>>]_vars

C18_Witness ==
    /\ nResp >= 1
    /\ \E i \in Started :
          /\ clients[i].promise = "pending"
          /\ clients[i].timer = "armed"
          /\ clients[i].ends = 0
====
